---- MODULE Spec2Model ----
(***************************************************************************)
(* Model of reis-finance: the perpetual-inventory average-cost engine      *)
(* (src/lib/perpetual_inventory.rs) and the currency normalizer            *)
(* (src/lib/currency.rs).                                                  *)
(*                                                                         *)
(* Numbers.  The program computes in f64.  A value is modelled as a pair   *)
(* <<n, d>>: a finite value is the exact rational n/d in lowest terms with *)
(* d > 0; <<1,0>> is +inf, <<-1,0>> is -inf and <<0,0>> is NaN, which are  *)
(* what IEEE-754 division by zero produces (Rust's f64 division never      *)
(* panics).  The rounding of finite results to 53 bits is not modelled:    *)
(* finite arithmetic is exact.  Every input is a non-negative finite       *)
(* number, so no divisor is ever a negative zero and the sign of zero      *)
(* cannot change a result.                                                 *)
(***************************************************************************)
EXTENDS Integers, Sequences, FiniteSets, Bags, TLC

\* The average-cost engine: the caller's ledger, the position of the call
\* chain, the frame with_cumulative evaluates to, the collected frame, and
\* the group the closure was last applied to.
VARIABLES orders, pc, data, result, group_rows

\* The currency normalizer: the caller's table, the position of the call,
\* the quote source handed to normalize (its registered tickers and the log
\* of the calls made on it), the other arguments of the call, what the
\* quote source answered, and what normalize returned; the prices the
\* provider behind the quote source quotes, and the result of normalizing
\* the returned table once more.
VARIABLES table, npc, scraper, args, quotes, normalized, market, round_trip

\* The market-data cache: the three series files of the cache directory,
\* the cache (its registered tickers and the collaborator it wraps), the
\* last call of Cache::load and the number of calls; and, for the merges
\* on their own, the series merged so far and the last merge.
VARIABLES files, cache, last_call, loads, merged, last_merge

\* The weekend adjustment: the date the two functions work on in place, and
\* the calls made so far (the function, the date before and after).
VARIABLES weekday_date, adjusted

\* Timeline::summary: its arguments (the date of the first order, the
\* interval and the target date), the position of the call, the date of
\* the loop and the dates of the snapshots gathered so far.
VARIABLES timeline_args, timeline_pc, current_date, timeline_result

avgVars == <<orders, pc, data, result, group_rows>>

normVars == <<table, npc, scraper, args, quotes, normalized, market, round_trip>>

cacheVars == <<files, cache, last_call, loads, merged, last_merge>>

calVars == <<weekday_date, adjusted>>

timelineVars == <<timeline_args, timeline_pc, current_date, timeline_result>>

vars == <<avgVars, normVars, cacheVars, calVars, timelineVars>>

-----------------------------------------------------------------------------
(* f64 arithmetic *)

Abs(n) == IF n < 0 THEN -n ELSE n

Sgn(n) == IF n < 0 THEN -1 ELSE IF n > 0 THEN 1 ELSE 0

RECURSIVE GCD(_, _)
GCD(a, b) == IF b = 0 THEN a ELSE GCD(b, a % b)

\* The f64 whose value is n/d (d may be 0: the result is then inf or NaN).
Norm(n, d) ==
    IF d = 0 THEN <<Sgn(n), 0>>
    ELSE LET g == GCD(Abs(n), Abs(d))
         IN  <<(Sgn(d) * n) \div g, Abs(d) \div g>>

Zero == <<0, 1>>
One == <<1, 1>>
NaN == <<0, 0>>

IsFinite(x) == x[2] # 0

F64Neg(x) == <<-x[1], x[2]>>

F64Mul(x, y) == Norm(x[1] * y[1], x[2] * y[2])

F64Div(x, y) ==
    Norm(x[1] * y[2] * (IF y[1] < 0 THEN -1 ELSE 1), x[2] * Abs(y[1]))

F64Add(x, y) ==
    IF x[2] = 0 /\ y[2] = 0
    THEN (IF x = y THEN x ELSE NaN)
    ELSE Norm(x[1] * y[2] + y[1] * x[2], x[2] * y[2])

F64Sub(x, y) == F64Add(x, F64Neg(y))

-----------------------------------------------------------------------------
(* The ledger: schema.rs *)

Action ==
    {"Sell", "Buy", "Split", "Dividend", "Deposit", "Tax", "Fee", "Interest",
     "Withdraw", "Ignore"}

\* Longest ledger explored.
MaxOrders == 3

Order(t, a, q, p) == [Ticker |-> t, Action |-> a, Qty |-> q, Price |-> p]

\* The rows a ledger is drawn from: the tickers, the 8 @ 34.45 and 4 @ 32.5
\* lots and the sale of 4 of generate_mocking_orders, and an empty lot; the
\* split factors are its reverse split 0.5, a forward split and a zero
\* factor, at price 0.0 as main.rs builds split rows.  APPL, the ticker that
\* interleaves, has one lot, the sale and the forward split.
BuyLots == {<<Norm(8, 1), Norm(3445, 100)>>, <<Norm(4, 1), Norm(3250, 100)>>,
            <<Zero, Norm(3250, 100)>>}
SellQtys == {Norm(4, 1)}
SplitFactors == {Zero, Norm(1, 2), Norm(2, 1)}
CashActions == {"Deposit", "Tax", "Fee", "Interest", "Withdraw", "Ignore"}

OrderRows ==
    {Order("GOOGL", "Buy", l[1], l[2]) : l \in BuyLots}
    \cup {Order(t, "Sell", q, Norm(354, 10)) : t \in {"GOOGL", "APPL"}, q \in SellQtys}
    \cup {Order("GOOGL", "Split", f, Zero) : f \in SplitFactors}
    \cup {Order("APPL", "Buy", Norm(4, 1), Norm(3250, 100)),
          Order("APPL", "Split", Norm(2, 1), Zero)}
    \cup {Order("GOOGL", "Dividend", One, Norm(134, 100))}
    \cup {Order("CASH", a, One, Norm(1000, 1)) : a \in CashActions}

-----------------------------------------------------------------------------
(* perpetual_inventory.rs *)

\* Mutant of buy_or_sell_or_split: filter::buy_or_sell, which drops the splits.
buy_or_sell(row) == row.Action = "Buy" \/ row.Action = "Sell"

\* utils::polars::filter::buy_or_sell_or_split, as a predicate on a row.
buy_or_sell_or_split(row) ==
    row.Action = "Buy" \/ row.Action = "Sell" \/ row.Action = "Split"

\* Mutant of SplitArm: the split rescales the quantity and not the cost.
SplitArmCostKept(st, row) ==
    [avg |-> st.avg, cum |-> F64Mul(st.cum, row.Qty), panic |-> FALSE]

\* Mutant of SellArm: the sold quantity is added instead of subtracted.
SellArmAdds(st, row) ==
    [avg |-> st.avg, cum |-> F64Add(st.cum, row.Qty), panic |-> FALSE]

\* Mutant of BuyArm: the lot's price enters the mean without its quantity.
BuyArmUnweighted(st, row) ==
    [avg |-> F64Div(F64Add(F64Mul(st.avg, st.cum), row.Price),
                    F64Add(st.cum, row.Qty)),
     cum |-> F64Add(st.cum, row.Qty), panic |-> FALSE]

\* Mutant of OtherArm: an unsupported action is skipped.
OtherArmSkips(st, row) == [avg |-> st.avg, cum |-> st.cum, panic |-> FALSE]

\* The arms of the closure's match on the action: the next (avg, cum).
SplitArm(st, row) ==
    [avg |-> F64Div(st.avg, row.Qty), cum |-> F64Mul(st.cum, row.Qty),
     panic |-> FALSE]

SellArm(st, row) ==
    [avg |-> st.avg, cum |-> F64Sub(st.cum, row.Qty), panic |-> FALSE]

BuyArm(st, row) ==
    LET new_cum_qty == F64Add(st.cum, row.Qty)
        cum_price ==
            F64Div(F64Add(F64Mul(st.avg, st.cum), F64Mul(row.Price, row.Qty)),
                   new_cum_qty)
    IN  [avg |-> cum_price, cum |-> new_cum_qty, panic |-> FALSE]

\* `_ => panic!("Unsupported action")`: the closure unwinds, no value.
OtherArm(st, row) == [avg |-> st.avg, cum |-> st.cum, panic |-> TRUE]

\* One iteration of the closure's map.  st.panic records that the closure has
\* panicked, at an earlier row or at this one.
FoldStep(st, row) ==
    IF st.panic THEN st
    ELSE CASE row.Action = "Split" -> SplitArm(st, row)
           [] row.Action = "Sell" -> SellArm(st, row)
           [] row.Action = "Buy" -> BuyArm(st, row)
           [] OTHER -> OtherArm(st, row)

\* The closure given to apply(): the fold over one group's rows, from (0.0, 0.0).
\* Its value is the struct series (one (avg, cum) per row), or a panic.
AverageCostFold(series) ==
    LET acc[k \in 0..Len(series)] ==
            IF k = 0 THEN [avg |-> Zero, cum |-> Zero, panic |-> FALSE]
            ELSE FoldStep(acc[k - 1], series[k])
    IN  IF acc[Len(series)].panic
        THEN [panic |-> TRUE, rows |-> <<>>]
        ELSE [panic |-> FALSE,
              rows |-> [k \in 1..Len(series) |->
                           [AveragePrice |-> acc[k].avg, AccruedQty |-> acc[k].cum]]]

\* Mutant of TickerGroup: the closure is applied without .over([Ticker]).
TickerGroupAll(tbl, t) == tbl

\* The rows of one group of .over([Ticker]), in table order.
TickerGroup(tbl, t) == SelectSeq(tbl, LAMBDA r : r.Ticker = t)

\* The position of row i of tbl within its ticker group.
GroupRank(tbl, i) == Cardinality({j \in 1..i : tbl[j].Ticker = tbl[i].Ticker})

\* AverageCost::with_cumulative, evaluated (the plan is lazy; collect runs it):
\* filter, the closure applied per ticker group, the struct unnested into the
\* two new columns of each row, rows left in their order.
with_cumulative(tbl) ==
    LET filtered == SelectSeq(tbl, buy_or_sell_or_split)
        tickers == {filtered[i].Ticker : i \in 1..Len(filtered)}
        folded == [t \in tickers |-> AverageCostFold(TickerGroup(filtered, t))]
    IN  IF \E t \in tickers : folded[t].panic
        THEN [panic |-> TRUE, rows |-> <<>>]
        ELSE [panic |-> FALSE,
              rows |-> [i \in 1..Len(filtered) |->
                  LET s == folded[filtered[i].Ticker].rows[GroupRank(filtered, i)]
                  IN  [Ticker |-> filtered[i].Ticker, Action |-> filtered[i].Action,
                       Qty |-> filtered[i].Qty, Price |-> filtered[i].Price,
                       AveragePrice |-> s.AveragePrice,
                       AccruedQty |-> s.AccruedQty]]]

\* Mutant of LatestOf: first() instead of last().
FirstOf(tbl, t) ==
    LET g == TickerGroup(tbl, t)
    IN  [Ticker |-> t, AveragePrice |-> g[1].AveragePrice,
         AccruedQty |-> g[1].AccruedQty]

\* The aggregation of collect_latest: last() of both columns of one group.
LatestOf(tbl, t) ==
    LET g == TickerGroup(tbl, t)
    IN  [Ticker |-> t, AveragePrice |-> g[Len(g)].AveragePrice,
         AccruedQty |-> g[Len(g)].AccruedQty]

\* AverageCost::collect_latest: group_by(Ticker).agg(last, last).  group_by
\* does not fix the order of the groups: the value is the set of the frames
\* it may return, one row per group in any order.
collect_latest(tbl) ==
    LET tickers == {tbl[i].Ticker : i \in 1..Len(tbl)}
        n == Cardinality(tickers)
    IN  {[k \in 1..n |-> LatestOf(tbl, ord[k])] :
            ord \in {o \in [1..n -> tickers] :
                        \A a, b \in 1..n : o[a] = o[b] => a = b}}

-----------------------------------------------------------------------------
(* The average-cost engine as a state machine *)

AvgInit ==
    /\ orders = <<>>
    /\ pc = "orders"
    /\ data = [panic |-> FALSE, rows |-> <<>>]
    /\ result = <<>>
    /\ group_rows = <<>>

\* The caller's ledger grows by one row.
AddOrder ==
    /\ pc = "orders"
    /\ Len(orders) < MaxOrders
    /\ \E row \in OrderRows : orders' = Append(orders, row)
    /\ UNCHANGED <<pc, data, result, group_rows, normVars, cacheVars, calVars, timelineVars>>

\* AverageCost::from_orders(orders).with_cumulative()
WithCumulative ==
    /\ pc = "orders"
    /\ data' = with_cumulative(orders)
    /\ pc' = "cumulative"
    /\ UNCHANGED <<orders, result, group_rows, normVars, cacheVars, calVars, timelineVars>>

\* AverageCost::collect: the row-by-row trace, or the closure's panic.
Collect ==
    /\ pc = "cumulative"
    /\ pc' = IF data.panic THEN "panicked" ELSE "collected"
    /\ result' = IF data.panic THEN <<>> ELSE data.rows
    /\ UNCHANGED <<orders, data, group_rows, normVars, cacheVars, calVars, timelineVars>>

\* AverageCost::collect_latest
CollectLatest ==
    /\ pc = "cumulative"
    /\ pc' = IF data.panic THEN "panicked" ELSE "latest"
    /\ IF data.panic
       THEN result' = <<>>
       ELSE \E frame \in collect_latest(data.rows) : result' = frame
    /\ UNCHANGED <<orders, data, group_rows, normVars, cacheVars, calVars, timelineVars>>

\* The closure on its own: apply() hands it the rows of one group, here a
\* group taken from a table that no filter has been applied to.
ApplyFold ==
    /\ pc = "orders"
    /\ \E t \in {orders[i].Ticker : i \in 1..Len(orders)} :
          /\ group_rows' = TickerGroup(orders, t)
          /\ data' = AverageCostFold(TickerGroup(orders, t))
    /\ pc' = "folded"
    /\ UNCHANGED <<orders, result, normVars, cacheVars, calVars, timelineVars>>

NextFold == AddOrder \/ ApplyFold

-----------------------------------------------------------------------------
(* The currency normalizer (src/lib/currency.rs) and the quote source it is   *)
(* handed (trait IScraper, src/lib/scraper).  Strings are strings: a pair's   *)
(* ticker is built by concatenation and taken apart again by split_once.      *)
(* Dates are day numbers.                                                     *)

\* schema::Currency: the strings that str::parse turns into a currency.
Currency == {"BRL", "EUR", "GBP", "GBX", "USD", "NA"}

\* The values met in a table's currency column; "XXX" parses into no
\* currency.  CurrencyOrder is their byte order, the order of <[&str]>::sort.
CurrencyOrder == <<"BRL", "GBP", "USD", "XXX">>

MaxTableRows == 2

Row(t, c, a, p) == [Ticker |-> t, Currency |-> c, Amount |-> a, Price |-> p]

\* Rows of the tables of the unit tests (150.00 in CASH, 76.87 in GOOGL).
TableRows ==
    {Row("CASH", CurrencyOrder[k], Norm(150, 1), One) : k \in 1..Len(CurrencyOrder)}
    \cup {Row("GOOGL", CurrencyOrder[k], Norm(7687, 100), Norm(3445, 100)) :
             k \in 1..Len(CurrencyOrder)}

\* The arguments the callers pass: the target currency, the columns to
\* scale and present_date (<<>> is None, <<d>> is Some(d)).
Targets == {"USD", "GBP"}
ColumnSets == {{"Amount"}, {"Amount", "Price"}}
Today == 20
PresentDates == {<<>>, <<10>>}

\* SearchPeriod::new
SearchPeriod(start, end, interval_days) ==
    LET i == IF interval_days = <<>> THEN 1 ELSE interval_days[1]
        e == IF end = <<>> THEN Today ELSE end[1]
        s == IF start = <<>> THEN e - i ELSE start[1]
    IN  [start |-> s, end |-> e, interval_days |-> i]

\* Cache::with_currency (Yahoo and the mock register the same pair once):
\* the ticker "{from}/{to}" joins the registered tickers unless present.
with_currency(s, from, to) ==
    LET value == from \o "/" \o to
    IN  [tickers |-> IF \E i \in 1..Len(s.tickers) : s.tickers[i] = value
                     THEN s.tickers
                     ELSE Append(s.tickers, value),
         calls |-> Append(s.calls, <<"with_currency", from, to>>)]

\* str::split_once('/'): <<>> is None, else the text before and after the
\* first '/'.
split_once(s) ==
    LET at == {i \in 1..Len(s) : SubSeq(s, i, i) = "/"}
    IN  IF at = {} THEN <<>>
        ELSE LET i == CHOOSE k \in at : \A j \in at : k <= j
             IN  <<SubSeq(s, 1, i - 1), SubSeq(s, i + 1, Len(s))>>

\* The tickers of the currency pairs.
PairTickers == {from \o "/" \o to : from \in Currency, to \in Currency}

\* The prices of the mock quote source, utils::test::mock::Scraper.
MockMap(ticker) ==
    CASE ticker = "USD/GBP" -> Norm(87, 100)
      [] ticker = "GBP/USD" -> Norm(123, 100)
      [] ticker = "BRL/USD" -> Norm(21, 100)
      [] ticker = "BRL/GBP" -> Norm(18, 100)
      [] OTHER -> Norm(3387, 100)

\* The price the provider quotes for a ticker.
Rate(ticker) == market[ticker]

\* Another price of a pair, quoted at another moment.
StaleRate(ticker) == F64Add(Rate(ticker), Norm(1, 2))

QuoteRow(d, t, p) == [Date |-> d, Ticker |-> t, Price |-> p]

\* What a load holds for one registered ticker inside the period: nothing
\* (the provider failed for it), its quote of the last day, or two quotes,
\* of two days or of the same day (the cache keeps both a quote fetched
\* earlier and the one fetched now when their prices differ; the sort by
\* Date leaves the order of rows of equal date open).
TickerQuotes(t, period) ==
    {<<>>,
     <<QuoteRow(period.end, t, Rate(t))>>,
     <<QuoteRow(period.end - 1, t, StaleRate(t)), QuoteRow(period.end, t, Rate(t))>>,
     <<QuoteRow(period.end, t, StaleRate(t)), QuoteRow(period.end, t, Rate(t))>>,
     <<QuoteRow(period.end, t, Rate(t)), QuoteRow(period.end, t, StaleRate(t))>>}

RECURSIVE Flatten(_)
Flatten(seqs) == IF seqs = <<>> THEN <<>> ELSE Head(seqs) \o Flatten(Tail(seqs))

\* ScraperData::concat_quotes: the frame of quotes is sorted by Date.
concat_quotes(per_ticker, period) ==
    LET all == Flatten(per_ticker)
    IN  SelectSeq(all, LAMBDA q : q.Date < period.end)
            \o SelectSeq(all, LAMBDA q : q.Date = period.end)

NoData == [status |-> "none", columns |-> FALSE, rows |-> <<>>]

\* IScraper::load_blocking, all that an implementation can answer: an error
\* (Cache, when the inner load or a filter fails), ScraperData::default()
\* whose quotes frame has no column (Yahoo, when the provider failed for
\* every ticker), or a frame of quotes of registered tickers.
load_blocking(s, period) ==
    {[status |-> "err", columns |-> FALSE, rows |-> <<>>],
     [status |-> "ok", columns |-> FALSE, rows |-> <<>>]}
    \cup {[status |-> "ok", columns |-> TRUE, rows |-> concat_quotes(ch, period)] :
             ch \in {c \in [1..Len(s.tickers) -> UNION {TickerQuotes(s.tickers[k], period) :
                                                         k \in 1..Len(s.tickers)}] :
                        \A k \in 1..Len(s.tickers) :
                            c[k] \in TickerQuotes(s.tickers[k], period)}}

\* The scraper after the load: a successful load resets the registrations,
\* a failed one returns before the reset.
AfterLoad(s, period, answer) ==
    [tickers |-> IF answer.status = "ok" THEN <<>> ELSE s.tickers,
     calls |-> Append(s.calls, <<"load", period.start, period.end>>)]

\* column_str, sort, dedup: the distinct currencies of the column, sorted.
sort_dedup(tbl) ==
    SelectSeq(CurrencyOrder, LAMBDA c : \E i \in 1..Len(tbl) : tbl[i].Currency = c)

IsIdentityNever(currencies, currency) == FALSE

\* The identity short-circuit: the column holds the target currency only.
IsIdentity(currencies, currency) ==
    Len(currencies) = 1 /\ currencies[1] = currency

RECURSIVE RegisterCurrenciesAll(_, _, _)
RegisterCurrenciesAll(currencies, currency, s) ==
    IF currencies = <<>> THEN [err |-> FALSE, scraper |-> s]
    ELSE IF Head(currencies) \notin Currency THEN [err |-> TRUE, scraper |-> s]
    ELSE RegisterCurrenciesAll(Tail(currencies), currency,
                               with_currency(s, Head(currencies), currency))

\* The registration loop: every currency is parsed, the first that does not
\* parse ends the call with an error, and every parsed currency other than
\* the target is registered as the pair currency/target.
RECURSIVE RegisterCurrencies(_, _, _)
RegisterCurrencies(currencies, currency, s) ==
    IF currencies = <<>> THEN [err |-> FALSE, scraper |-> s]
    ELSE IF Head(currencies) \notin Currency THEN [err |-> TRUE, scraper |-> s]
    ELSE RegisterCurrencies(Tail(currencies), currency,
                            IF Head(currencies) # currency
                            THEN with_currency(s, Head(currencies), currency)
                            ELSE s)

\* group_by(Ticker).agg(Price.last()): the tickers of the quotes, and for
\* each the price of its last row in the frame.
FirstRows(q) ==
    SelectSeq([i \in 1..Len(q) |-> i],
              LAMBDA i : \A j \in 1..(i - 1) : q[j].Ticker # q[i].Ticker)

FirstPrice(q, t) ==
    LET at == {i \in 1..Len(q) : q[i].Ticker = t}
    IN  q[CHOOSE i \in at : \A j \in at : i <= j].Price

LastPrice(q, t) ==
    LET at == {i \in 1..Len(q) : q[i].Ticker = t}
    IN  q[CHOOSE i \in at : \A j \in at : j <= i].Price

\* The rate table: one row per quoted ticker, keyed by the text before the
\* '/', then the row (target, 1.0).
exchange_rate(q, currency) ==
    LET first == FirstRows(q)
    IN  [k \in 1..Len(first) |->
            [Ticker |-> split_once(q[first[k]].Ticker)[1],
             exchange_rate |-> <<LastPrice(q, q[first[k]].Ticker)>>]]
        \o <<[Ticker |-> currency, exchange_rate |-> <<One>>]>>

RECURSIVE inner_join(_, _)
inner_join(tbl, rates) ==
    IF tbl = <<>> THEN <<>>
    ELSE LET row == Head(tbl)
             m == SelectSeq(rates, LAMBDA r : r.Ticker = row.Currency)
         IN  [k \in 1..Len(m) |-> [row |-> row, exchange_rate |-> m[k].exchange_rate]]
             \o inner_join(Tail(tbl), rates)

\* The left join of the table with the rate table on currency = Ticker: a
\* row without a match carries a null rate (<<>>), a row with several
\* matches appears once per match.
RECURSIVE left_join(_, _)
left_join(tbl, rates) ==
    IF tbl = <<>> THEN <<>>
    ELSE LET row == Head(tbl)
             m == SelectSeq(rates, LAMBDA r : r.Ticker = row.Currency)
         IN  (IF m = <<>>
              THEN <<[row |-> row, exchange_rate |-> <<>>]>>
              ELSE [k \in 1..Len(m) |->
                       [row |-> row, exchange_rate |-> m[k].exchange_rate]])
             \o left_join(Tail(tbl), rates)

\* fill_null(lit(1))
fill_null(rate) == IF rate = <<>> THEN One ELSE rate[1]

convertDivides(value, rate) == F64Div(value, rate)

convertRounds(value, rate) ==
    LET x == F64Mul(value, rate)
    IN  IF IsFinite(x) THEN Norm((200 * x[1] + x[2]) \div (2 * x[2]), 100) ELSE x

\* column * col(EXCHANGE_RATE)
convert(value, rate) == F64Mul(value, rate)

\* The columns after the join: the listed ones scaled, the currency column
\* set to the target, the rate column dropped.
with_columns(joined, columns, currency) ==
    [k \in 1..Len(joined) |->
        LET row == joined[k].row
            rate == fill_null(joined[k].exchange_rate)
        IN  [Ticker |-> row.Ticker,
             Currency |-> currency,
             Amount |-> IF "Amount" \in columns
                        THEN convert(row.Amount, rate) ELSE row.Amount,
             Price |-> IF "Price" \in columns
                       THEN convert(row.Price, rate) ELSE row.Price]]

Outcome(st, rows, s, q) == [status |-> st, rows |-> rows, scraper |-> s, quotes |-> q]

\* normalize from the load on: the outcomes for one answer of the source.
Converted(tbl, columns, currency, s, period, answer) ==
    LET after == AfterLoad(s, period, answer)
    IN  IF answer.status = "err"
        THEN {Outcome("err", <<>>, after, answer)}
        ELSE IF ~answer.columns
        THEN {Outcome(st, <<>>, after, answer) : st \in {"err", "panic"}}
        ELSE IF \E i \in 1..Len(answer.rows) : split_once(answer.rows[i].Ticker) = <<>>
        THEN {Outcome("panic", <<>>, after, answer)}
        ELSE {Outcome("ok",
                      with_columns(left_join(tbl, exchange_rate(answer.rows, currency)),
                                   columns, currency),
                      after, answer)}

\* currency::normalize with by_col = Currency: the set of its outcomes, one
\* for each answer the quote source can give.
normalize(tbl, columns, currency, s, present_date) ==
    LET currencies == sort_dedup(tbl)
        reg == RegisterCurrencies(currencies, currency, s)
        period == SearchPeriod(IF present_date = <<>> THEN <<>>
                               ELSE <<present_date[1] - 3>>,
                               present_date, <<>>)
    IN  IF Len(tbl) = 0 THEN {Outcome("err", <<>>, s, NoData)}
        ELSE IF IsIdentity(currencies, currency) THEN {Outcome("ok", tbl, s, NoData)}
        ELSE IF reg.err THEN {Outcome("err", <<>>, reg.scraper, NoData)}
        ELSE UNION {Converted(tbl, columns, currency, reg.scraper, period, answer) :
                        answer \in load_blocking(reg.scraper, period)}

-----------------------------------------------------------------------------
(* The normalizer as a state machine *)

\* The state before the call, but for the provider's prices.
NormStart ==
    /\ table = <<>>
    /\ npc = "table"
    /\ scraper = [tickers |-> <<>>, calls |-> <<>>]
    /\ args = [columns |-> {}, currency |-> "NA", present_date |-> <<>>]
    /\ quotes = NoData
    /\ normalized = [status |-> "none", rows |-> <<>>]
    /\ round_trip = [status |-> "none", rows |-> <<>>, currency |-> "NA",
                     quotes |-> NoData]

NormInit ==
    /\ NormStart
    /\ market = [t \in PairTickers |-> MockMap(t)]

\* The caller's table grows by one row.
AddRow ==
    /\ npc = "table"
    /\ Len(table) < MaxTableRows
    /\ \E row \in TableRows : table' = Append(table, row)
    /\ UNCHANGED <<npc, scraper, args, quotes, normalized, market, round_trip, avgVars, cacheVars, calVars, timelineVars>>

\* currency::normalize(table, Currency, columns, currency, scraper,
\* present_date), the whole call.
Normalize ==
    /\ npc = "table"
    /\ \E currency \in Targets, columns \in ColumnSets, present_date \in PresentDates :
          \E out \in normalize(table, columns, currency, scraper, present_date) :
             /\ args' = [columns |-> columns, currency |-> currency,
                         present_date |-> present_date]
             /\ normalized' = [status |-> out.status, rows |-> out.rows]
             /\ scraper' = out.scraper
             /\ quotes' = out.quotes
    /\ npc' = "normalized"
    /\ UNCHANGED <<table, market, round_trip, avgVars, cacheVars, calVars, timelineVars>>

\* A provider whose price of GBP/USD is the reciprocal of its price of
\* USD/GBP, for either of the two prices of the mock.
ReciprocalMap(ticker, usd_gbp) ==
    CASE ticker = "USD/GBP" -> usd_gbp
      [] ticker = "GBP/USD" -> F64Div(One, usd_gbp)
      [] OTHER -> MockMap(ticker)

RoundTripInit ==
    /\ NormStart
    /\ \E usd_gbp \in {MockMap("USD/GBP"), F64Div(One, MockMap("GBP/USD"))} :
          market = [t \in PairTickers |-> ReciprocalMap(t, usd_gbp)]

\* currency::normalize called on the table a first call returned, with the
\* same columns and present_date and the same quote source.
NormalizeBack ==
    /\ npc = "normalized"
    /\ normalized.status = "ok"
    /\ \E currency \in Targets :
          \E out \in normalize(normalized.rows, args.columns, currency, scraper,
                               args.present_date) :
             /\ round_trip' = [status |-> out.status, rows |-> out.rows,
                               currency |-> currency, quotes |-> out.quotes]
             /\ scraper' = out.scraper
    /\ npc' = "returned"
    /\ UNCHANGED <<table, args, quotes, normalized, market, avgVars, cacheVars, calVars, timelineVars>>

-----------------------------------------------------------------------------
(* The market-data cache (src/lib/scraper/cache.rs) around a collaborator  *)
(* that fetches from the provider (src/lib/scraper/yahoo.rs).  A frame is   *)
(* modelled as the bag of its rows: the frames the cache handles are sorted *)
(* by Date with the order of rows of equal date left open, and nothing the  *)
(* cache does depends on that order.  A series file that is missing reads   *)
(* as the empty frame.                                                      *)

MaxLoads == 2

\* chrono::Datelike::weekday of a day number: day 14 is a Monday, so 5 is a
\* Saturday and 6 a Sunday.  Today (day 20) is a Sunday.
weekday(date) == date % 7

adjust_weekday_backward(date) ==
    CASE weekday(date) = 5 -> date - 1
      [] weekday(date) = 6 -> date - 2
      [] OTHER -> date

\* The tickers callers register and the windows they ask for.
CacheTickers == {"GOOGL", "APPL"}

RequestWindows == {<<16, 18>>, <<17, 17>>, <<16, 20>>, <<19, 20>>}

SplitRow(d, t, q) == [Date |-> d, Ticker |-> t, Qty |-> q]

ScraperData_default == [quotes |-> EmptyBag, splits |-> EmptyBag, dividends |-> EmptyBag]

\* The three files of the cache directory: the rows each holds, and whether
\* it is missing, corrupt (it does not parse) or holds rows.  The files of
\* a fresh directory are missing.
FileNames == {"quotes", "splits", "dividends"}

NoFiles ==
    [quotes |-> EmptyBag, splits |-> EmptyBag, dividends |-> EmptyBag,
     state |-> [name \in FileNames |-> "missing"]]

\* Cache::load_json: the rows of a file that is there and parses; an error
\* for a file that is missing (File::open fails) or corrupt (the panic of
\* the reader is caught).
load_json(f, name) ==
    IF f.state[name] = "rows" THEN [ok |-> TRUE, df |-> f[name]]
    ELSE [ok |-> FALSE, df |-> EmptyBag]

\* Result::unwrap_or_default: DataFrame::default() for an error.
unwrap_or_default(res) == IF res.ok THEN res.df ELSE EmptyBag

ConcatOnly(df, incoming) == df (+) incoming

\* concat([df, incoming]).unique(None, UniqueKeepStrategy::First).sort(Date):
\* rows equal in every column are kept once.
UniqueSorted(df, incoming) == SetToBag(BagToSet(df (+) incoming))

\* ScraperData::concat_quotes / concat_splits / concat_dividends
ScraperData_concat_quotes(sd, df) ==
    IF BagCardinality(df) > 0 THEN [sd EXCEPT !.quotes = UniqueSorted(@, df)] ELSE sd

ScraperData_concat_splits(sd, df) ==
    IF BagCardinality(df) > 0 THEN [sd EXCEPT !.splits = UniqueSorted(@, df)] ELSE sd

ScraperData_concat_dividends(sd, df) ==
    IF BagCardinality(df) > 0 THEN [sd EXCEPT !.dividends = UniqueSorted(@, df)] ELSE sd

\* The provider: a quote for every trading day of the period, a split of
\* GOOGL on day 17 and a dividend of every ticker on day 18.  The price of the
\* latest trading day is the one at the time of the fetch, one of two: it
\* can differ from one fetch to the next.
TradingDays(period) == {d \in period.start..period.end : weekday(d) < 5}

ProviderPrice(d, period, v) ==
    IF \A e \in TradingDays(period) : e <= d THEN Norm(v, 1) ELSE One

ProviderVersions == {1, 2}

ProviderData(tickers, period, v) ==
    [quotes |-> SetToBag({QuoteRow(d, t, ProviderPrice(d, period, v)) :
                             d \in TradingDays(period), t \in tickers}),
     splits |-> SetToBag({SplitRow(d, t, Norm(2, 1)) :
                             d \in TradingDays(period) \cap {17},
                             t \in tickers \cap {"GOOGL"}}),
     dividends |-> SetToBag({QuoteRow(d, t, Norm(1, 4)) :
                                d \in TradingDays(period) \cap {18},
                                t \in tickers})]

\* Yahoo::load: a ticker the provider fails for is skipped, the data of the
\* others is merged, and the registrations are reset; an error returns
\* before the reset.
Yahoo_load(inner, period) ==
    {[status |-> "err", data |-> ScraperData_default,
      inner |-> [inner EXCEPT !.calls = Append(@, period)]]}
    \cup {[status |-> "ok", data |-> ProviderData(answered, period, v),
           inner |-> [tickers |-> <<>>, calls |-> Append(inner.calls, period)]] :
             answered \in SUBSET {inner.tickers[k] : k \in 1..Len(inner.tickers)},
             v \in ProviderVersions}

\* Cache::with_ticker
Cache_with_ticker(c, ticker) ==
    [tickers |-> Append(c.tickers, ticker),
     inner |-> [c.inner EXCEPT !.tickers = Append(@, ticker)]]

is_cache_updatedAny(c, df, period) ==
    LET end == adjust_weekday_backward(period.end)
        start == adjust_weekday_backward(period.start)
    IN  \E r \in BagToSet(df) :
           /\ r.Date <= end /\ r.Date >= start
           /\ \E k \in 1..Len(c.tickers) : c.tickers[k] = r.Ticker

\* Cache::is_cache_updated: every registered ticker has a cached quote dated
\* inside the window whose two ends are moved back off the weekend.
is_cache_updated(c, df, period) ==
    LET end == adjust_weekday_backward(period.end)
        start == adjust_weekday_backward(period.start)
        cached_tickers == {r.Ticker : r \in {x \in BagToSet(df) :
                                               x.Date <= end /\ x.Date >= start}}
    IN  \A k \in 1..Len(c.tickers) : c.tickers[k] \in cached_tickers

\* Cache::dump_json: the file is created anew with the rows of the frame; a
\* frame without rows is not written.
dump_json(df, f, name) ==
    IF BagCardinality(df) > 0
    THEN [f EXCEPT ![name] = df, !.state[name] = "rows"]
    ELSE f

QuotesFilterFromStart(c, df, period) ==
    LET keep == {r \in BagToSet(df) :
                    /\ \E k \in 1..Len(c.tickers) : c.tickers[k] = r.Ticker
                    /\ r.Date <= period.end
                    /\ r.Date >= period.start}
    IN  [r \in keep |-> df[r]]

\* The filter on Ticker and Date that ends Cache::load.
QuotesFilter(c, df, period) ==
    LET start == adjust_weekday_backward(period.start)
        keep == {r \in BagToSet(df) :
                    /\ \E k \in 1..Len(c.tickers) : c.tickers[k] = r.Ticker
                    /\ r.Date <= period.end
                    /\ r.Date >= start}
    IN  [r \in keep |-> df[r]]

LoadOutcome(st, d, c, f) == [status |-> st, data |-> d, cache |-> c, files |-> f]

\* Cache::load from the filter on: with the quotes of cached_data filtered
\* (a frame without rows has no column to filter on: the collect fails and
\* load returns the error before the reset), the dividends filtered when
\* there are any, the splits as they are, and the registrations reset.
Cache_filter(c, f, cached_data, period) ==
    IF BagCardinality(cached_data.quotes) = 0
    THEN LoadOutcome("err", ScraperData_default, c, f)
    ELSE LoadOutcome("ok",
                     [quotes |-> QuotesFilter(c, cached_data.quotes, period),
                      splits |-> cached_data.splits,
                      dividends |-> QuotesFilter(c, cached_data.dividends, period)],
                     [tickers |-> <<>>, inner |-> [c.inner EXCEPT !.tickers = <<>>]],
                     f)

\* Cache::load up to the coverage check: the series read from the files,
\* the splits and dividends only when the quotes file has rows.
Cache_read(f) ==
    LET read == unwrap_or_default(load_json(f, "quotes"))
    IN  IF BagCardinality(read) > 0
        THEN ScraperData_concat_dividends(
                 ScraperData_concat_splits(
                     ScraperData_concat_quotes(ScraperData_default, read),
                     unwrap_or_default(load_json(f, "splits"))),
                 unwrap_or_default(load_json(f, "dividends")))
        ELSE ScraperData_default

CoveredNever(c, f, period) == FALSE

CoveredWhenUnreadable(c, f, period) ==
    \/ ~load_json(f, "quotes").ok
    \/ is_cache_updated(c, Cache_read(f).quotes, period)

Cache_covered(c, f, period) ==
    /\ BagCardinality(unwrap_or_default(load_json(f, "quotes"))) > 0
    /\ is_cache_updated(c, Cache_read(f).quotes, period)

FetchPeriodRequested(period) == period

\* The period of the fetch: from the start of the request to today.
FetchPeriod(period) == SearchPeriod(<<period.start>>, <<>>, <<1>>)

Cache_failedTruncates(c, f, answer) ==
    LoadOutcome("err", ScraperData_default, [c EXCEPT !.inner = answer.inner],
                [f EXCEPT !.quotes = EmptyBag])

\* Cache::load when the load of the collaborator failed: the error goes to
\* the caller before anything is merged or written, and before the reset.
Cache_failed(c, f, answer) ==
    LoadOutcome("err", ScraperData_default, [c EXCEPT !.inner = answer.inner], f)

\* Cache::load, the set of its outcomes: answered from the files when the
\* request is covered, or else after one load of the collaborator, whose
\* data is merged into the series and the series written back.
Cache_load(c, f, period) ==
    IF Cache_covered(c, f, period)
    THEN {Cache_filter(c, f, Cache_read(f), period)}
    ELSE {IF answer.status = "err"
          THEN Cache_failed(c, f, answer)
          ELSE LET cached_data ==
                       ScraperData_concat_splits(
                           ScraperData_concat_dividends(
                               ScraperData_concat_quotes(Cache_read(f), answer.data.quotes),
                               answer.data.dividends),
                           answer.data.splits)
               IN  Cache_filter([c EXCEPT !.inner = answer.inner],
                                dump_json(cached_data.dividends,
                                    dump_json(cached_data.splits,
                                        dump_json(cached_data.quotes, f, "quotes"),
                                        "splits"),
                                    "dividends"),
                                cached_data, period) :
             answer \in Yahoo_load(c.inner, FetchPeriod(period))}

-----------------------------------------------------------------------------
(* The cache as a state machine *)

NoCall ==
    [status |-> "none", tickers |-> <<>>, period |-> SearchPeriod(<<>>, <<>>, <<>>),
     data |-> ScraperData_default, before |-> NoFiles, after |-> NoFiles,
     left |-> <<>>, fetched |-> <<>>]

NoMerge == [kind |-> "none", delta |-> EmptyBag, before |-> ScraperData_default,
            repeated |-> FALSE]

\* Cache::new on a fresh cache directory.
CacheInit ==
    /\ files = NoFiles
    /\ cache = [tickers |-> <<>>, inner |-> [tickers |-> <<>>, calls |-> <<>>]]
    /\ last_call = NoCall
    /\ loads = 0
    /\ merged = ScraperData_default
    /\ last_merge = NoMerge

\* Cache::with_ticker with a ticker that is not registered yet.
WithTicker ==
    /\ loads < MaxLoads
    /\ \E ticker \in CacheTickers :
          /\ \A k \in 1..Len(cache.tickers) : cache.tickers[k] # ticker
          /\ cache' = Cache_with_ticker(cache, ticker)
    /\ UNCHANGED <<files, last_call, loads, merged, last_merge, avgVars, normVars, calVars, timelineVars>>

\* The quotes, splits or dividends file is removed from the cache
\* directory between two calls: File::open fails for it from then on.
FileLost ==
    /\ loads < MaxLoads
    /\ \E name \in FileNames :
          /\ files.state[name] = "rows"
          /\ files' = [files EXCEPT ![name] = EmptyBag, !.state[name] = "missing"]
    /\ UNCHANGED <<cache, last_call, loads, merged, last_merge, avgVars, normVars, calVars, timelineVars>>

\* A file of the cache directory is damaged between two calls (a write cut
\* short, say): JsonReader fails on it and it holds no row any more.
FileCorrupted ==
    /\ loads < MaxLoads
    /\ \E name \in FileNames :
          /\ files.state[name] = "rows"
          /\ files' = [files EXCEPT ![name] = EmptyBag, !.state[name] = "corrupt"]
    /\ UNCHANGED <<cache, last_call, loads, merged, last_merge, avgVars, normVars, calVars, timelineVars>>

\* Cache::load, the whole call.  last_call keeps what was asked (the
\* tickers registered and the period), the files as they were before the
\* call and after it, the tickers left registered when it returned, the
\* periods of the collaborator's loads made during the call, and what the
\* call returned.
Load ==
    /\ loads < MaxLoads
    /\ \E w \in RequestWindows :
          LET period == SearchPeriod(<<w[1]>>, <<w[2]>>, <<>>)
          IN  \E out \in Cache_load(cache, files, period) :
                 /\ files' = out.files
                 /\ cache' = out.cache
                 /\ last_call' = [status |-> out.status,
                                  tickers |-> cache.tickers,
                                  period |-> period,
                                  data |-> out.data,
                                  before |-> files,
                                  after |-> out.files,
                                  left |-> out.cache.tickers,
                                  fetched |-> SubSeq(out.cache.inner.calls,
                                                     Len(cache.inner.calls) + 1,
                                                     Len(out.cache.inner.calls))]
    /\ loads' = loads + 1
    /\ UNCHANGED <<merged, last_merge, avgVars, normVars, calVars, timelineVars>>

\* A delta a collaborator hands to the merges: what the provider answers
\* for some tickers from the start of a window to today, at one of the
\* fetch times.
Delta(tickers, start, v) == ProviderData(tickers, SearchPeriod(<<start>>, <<>>, <<1>>), v)

DeltaStarts == {w[1] : w \in RequestWindows}

Merging(kind, delta, sd) ==
    /\ merged' = sd
    /\ last_merge' = [kind |-> kind, delta |-> delta, before |-> merged,
                      repeated |-> last_merge.kind = kind /\ last_merge.delta = delta]
    /\ UNCHANGED <<files, cache, last_call, loads, avgVars, normVars, calVars, timelineVars>>

\* ScraperData::concat_quotes(delta) on the series merged so far.
ConcatQuotes ==
    \E tickers \in SUBSET CacheTickers, start \in DeltaStarts, v \in ProviderVersions :
        LET d == Delta(tickers, start, v)
        IN  Merging("quotes", d.quotes, ScraperData_concat_quotes(merged, d.quotes))

\* ScraperData::concat_splits(delta)
ConcatSplits ==
    \E tickers \in SUBSET CacheTickers, start \in DeltaStarts, v \in ProviderVersions :
        LET d == Delta(tickers, start, v)
        IN  Merging("splits", d.splits, ScraperData_concat_splits(merged, d.splits))

\* ScraperData::concat_dividends(delta)
ConcatDividends ==
    \E tickers \in SUBSET CacheTickers, start \in DeltaStarts, v \in ProviderVersions :
        LET d == Delta(tickers, start, v)
        IN  Merging("dividends", d.dividends,
                    ScraperData_concat_dividends(merged, d.dividends))

-----------------------------------------------------------------------------
(* The weekend adjustment of dates (src/lib/scraper/cache.rs) *)

MaxDate == 27

MaxAdjustments == 2

adjust_weekday_forwardOne(d) ==
    CASE weekday(d) = 5 -> d + 1
      [] weekday(d) = 6 -> d + 1
      [] OTHER -> d

\* adjust_weekday_forward: the value it leaves in *date.
adjust_weekday_forward(d) ==
    CASE weekday(d) = 5 -> d + 2
      [] weekday(d) = 6 -> d + 1
      [] OTHER -> d

\* No call yet, on today's date.
CalStart ==
    /\ weekday_date = Today
    /\ adjusted = <<>>

\* No call yet, on any date of four weeks.
CalInit ==
    /\ weekday_date \in 0..MaxDate
    /\ adjusted = <<>>

\* adjust_weekday_forward(&mut date)
AdjustForward ==
    /\ Len(adjusted) < MaxAdjustments
    /\ weekday_date' = adjust_weekday_forward(weekday_date)
    /\ adjusted' = Append(adjusted, [fn |-> "forward", from |-> weekday_date,
                                     to |-> adjust_weekday_forward(weekday_date)])
    /\ UNCHANGED <<avgVars, normVars, cacheVars, timelineVars>>

\* adjust_weekday_backward(&mut date)
AdjustBackward ==
    /\ Len(adjusted) < MaxAdjustments
    /\ weekday_date' = adjust_weekday_backward(weekday_date)
    /\ adjusted' = Append(adjusted, [fn |-> "backward", from |-> weekday_date,
                                     to |-> adjust_weekday_backward(weekday_date)])
    /\ UNCHANGED <<avgVars, normVars, cacheVars, timelineVars>>

-----------------------------------------------------------------------------
(* The stepping loop of Timeline::summary (src/lib/timeline.rs).  A         *)
(* snapshot is modelled by its date; the summary computed for it is not.    *)

MaxSpan == 4

MaxInterval == 3

MaxSnapshots == MaxSpan + 2

\* The date of the first order, the interval and the target date (<<>> is
\* None: today).
TimelineArgs ==
    [first_date : (Today - MaxSpan)..Today,
     interval_days : 0..MaxInterval,
     date : {<<>>} \cup {<<d>> : d \in (Today - MaxSpan)..Today}]

\* let date = if let Some(date) = date { date.parse()? } else { today }
TargetDate(a) == IF a.date = <<>> THEN Today ELSE a.date[1]

next_dateUnclamped(current, interval_days, target) == current + interval_days

\* current_date += interval_days; current_date = current_date.min(date)
next_date(current, interval_days, target) ==
    IF current + interval_days <= target THEN current + interval_days ELSE target

\* sort([Date]) of the dates gathered.
SortDates(ds) ==
    [k \in 1..Len(ds) |->
        ds[CHOOSE i \in 1..Len(ds) :
              Cardinality({j \in 1..Len(ds) :
                              ds[j] < ds[i] \/ (ds[j] = ds[i] /\ j < i)}) = k - 1]]

\* No call of Timeline::summary.
TimelineStart ==
    /\ timeline_args = [first_date |-> Today, interval_days |-> 1, date |-> <<>>]
    /\ timeline_pc = "none"
    /\ current_date = Today
    /\ timeline_result = <<>>

\* Timeline::summary up to the loop: current_date is the first date of
\* the orders.
TimelineInit ==
    /\ timeline_args \in TimelineArgs
    /\ timeline_pc = "loop"
    /\ current_date = timeline_args.first_date
    /\ timeline_result = <<>>

\* One turn of the loop: the snapshot of current_date joins the result;
\* then the loop ends, when current_date is the target date, with the
\* result sorted by date, or current_date advances.
TimelineStep ==
    /\ timeline_pc = "loop"
    /\ Len(timeline_result) < MaxSnapshots
    /\ LET gathered == Append(timeline_result, current_date)
           target == TargetDate(timeline_args)
       IN  IF current_date = target
           THEN /\ timeline_pc' = "done"
                /\ timeline_result' = SortDates(gathered)
                /\ UNCHANGED current_date
           ELSE /\ timeline_pc' = "loop"
                /\ timeline_result' = gathered
                /\ current_date' = next_date(current_date, timeline_args.interval_days,
                                             target)
    /\ UNCHANGED <<timeline_args, avgVars, normVars, cacheVars, calVars>>

\* One turn of the loop in which a computation of the snapshot fails: the
\* error is returned with `?` and there is no result.
TimelineFail ==
    /\ timeline_pc = "loop"
    /\ Len(timeline_result) < MaxSnapshots
    /\ timeline_pc' = "err"
    /\ timeline_result' = <<>>
    /\ UNCHANGED <<timeline_args, current_date, avgVars, normVars, cacheVars, calVars>>

-----------------------------------------------------------------------------
(* Specifications *)

Init == AvgInit /\ NormInit /\ CacheInit /\ CalStart /\ TimelineStart

Next == AddOrder \/ WithCumulative \/ Collect \/ CollectLatest

Spec == Init /\ [][Next]_vars

SpecFold == Init /\ [][NextFold]_vars

NextNorm == AddRow \/ Normalize

SpecNorm == Init /\ [][NextNorm]_vars

NextRoundTrip == AddRow \/ Normalize \/ NormalizeBack

InitRoundTrip == AvgInit /\ RoundTripInit /\ CacheInit /\ CalStart /\ TimelineStart

SpecRoundTrip == InitRoundTrip /\ [][NextRoundTrip]_vars

NextCache == WithTicker \/ Load

SpecCache == Init /\ [][NextCache]_vars

NextDisk == WithTicker \/ Load \/ FileLost \/ FileCorrupted

SpecDisk == Init /\ [][NextDisk]_vars

InitWeekday == AvgInit /\ NormInit /\ CacheInit /\ CalInit /\ TimelineStart

NextWeekday == AdjustForward \/ AdjustBackward

SpecWeekday == InitWeekday /\ [][NextWeekday]_vars

InitTimeline == AvgInit /\ NormInit /\ CacheInit /\ CalStart /\ TimelineInit

NextTimeline == TimelineStep \/ TimelineFail

\* The loop runs on as long as it has not ended: nothing else is scheduled
\* during the call.
SpecTimeline == InitTimeline /\ [][NextTimeline]_vars /\ WF_vars(TimelineStep)

NextMerge == ConcatQuotes \/ ConcatSplits \/ ConcatDividends

SpecMerge == Init /\ [][NextMerge]_vars
-----------------------------------------------------------------------------
(* Properties of the average-cost engine *)

Traded == {"Buy", "Sell", "Split"}

\* with_cumulative has been evaluated: data holds its frame, which collect
\* and collect_latest read and leave as it is.
Computed == pc \in {"cumulative", "collected", "latest"}

\* The recurrence of the specification on one row, formula by formula.
RefStep(st, row) ==
    CASE row.Action = "Buy" ->
            LET cum2 == F64Add(st[2], row.Qty)
            IN  <<F64Div(F64Add(F64Mul(st[1], st[2]), F64Mul(row.Price, row.Qty)),
                         cum2), cum2>>
      [] row.Action = "Sell" -> <<st[1], F64Sub(st[2], row.Qty)>>
      [] row.Action = "Split" -> <<F64Div(st[1], row.Qty), F64Mul(st[2], row.Qty)>>
      [] OTHER -> st

\* One pass over the whole ledger in ledger order, keeping one (avg, cum) per
\* ticker, each from (0, 0): the pairs after the Buy/Sell/Split rows.
SeqFold(ledger) ==
    LET T == {ledger[i].Ticker : i \in 1..Len(ledger)}
        acc[k \in 0..Len(ledger)] ==
            IF k = 0 THEN [t \in T |-> <<Zero, Zero>>]
            ELSE [acc[k - 1] EXCEPT ![ledger[k].Ticker] = RefStep(@, ledger[k])]
        idx == SelectSeq([i \in 1..Len(ledger) |-> i],
                         LAMBDA i : ledger[i].Action \in Traded)
    IN  [j \in 1..Len(idx) |-> acc[idx[j]][ledger[idx[j]].Ticker]]

\* The (avg, cum) a ticker had before row i of the trace: the pair on the
\* ticker's previous row, or (0, 0).
PrevState(tbl, i) ==
    LET js == {j \in 1..(i - 1) : tbl[j].Ticker = tbl[i].Ticker}
    IN  IF js = {} THEN [avg |-> Zero, cum |-> Zero]
        ELSE LET m == CHOOSE j \in js : \A k \in js : k <= j
             IN  [avg |-> tbl[m].AveragePrice, cum |-> tbl[m].AccruedQty]

GooglTraded == TickerGroup(SelectSeq(orders, LAMBDA r : r.Action \in Traded), "GOOGL")
GooglTrace == TickerGroup(data.rows, "GOOGL")
Lot8 == Order("GOOGL", "Buy", Norm(8, 1), Norm(3445, 100))
Lot4 == Order("GOOGL", "Buy", Norm(4, 1), Norm(3250, 100))

\* C1: for any ledger, with_cumulative emits for each Buy/Sell/Split row the
\* (average_cost, accrued_quantity) of the sequential per-ticker fold from
\* (0, 0) in ledger order, whatever rows of other tickers are interleaved; and
\* GOOGL buy 8 @ 34.45 then buy 4 @ 32.50 gives quantity 12 at cost 33.8 (a
\* following sell of 4 leaves 8 at 33.8).
C1_SequentialFold ==
    /\ pc = "collected" => result = data.rows
    /\ pc = "cumulative" =>
        LET fold == SeqFold(orders)
        IN  /\ ~data.panic
            /\ Len(data.rows) = Len(fold)
            /\ \A j \in 1..Len(data.rows) :
                  <<data.rows[j].AveragePrice, data.rows[j].AccruedQty>> = fold[j]
            /\ (Len(GooglTraded) >= 2 /\ GooglTraded[1] = Lot8 /\ GooglTraded[2] = Lot4)
                  => /\ GooglTrace[2].AccruedQty = Norm(12, 1)
                     /\ GooglTrace[2].AveragePrice = Norm(338, 10)
                     /\ (Len(GooglTraded) = 3 /\ GooglTraded[3].Action = "Sell")
                           => /\ GooglTrace[3].AccruedQty = Norm(8, 1)
                              /\ GooglTrace[3].AveragePrice = Norm(338, 10)

\* The two GOOGL buys with a traded APPL row between them, evaluated.
C1_Witness ==
    /\ pc = "collected"
    /\ Len(orders) = 3
    /\ orders[1] = Lot8 /\ orders[3] = Lot4
    /\ orders[2].Ticker = "APPL" /\ orders[2].Action = "Buy"
    /\ result[3].AccruedQty = Norm(12, 1)
    /\ result[3].AveragePrice = Norm(338, 10)

\* C2: a Sell row never changes average_cost: from any state (avg, cum) a Sell
\* of q leaves (avg, cum - q).
C2_SellInvariance ==
    pc = "cumulative" =>
        \A i \in 1..Len(data.rows) :
            data.rows[i].Action = "Sell" =>
                /\ data.rows[i].AveragePrice = PrevState(data.rows, i).avg
                /\ data.rows[i].AccruedQty
                      = F64Sub(PrevState(data.rows, i).cum, data.rows[i].Qty)

\* A Sell row reached with a position at a non-zero finite cost.
C2_Witness ==
    /\ Computed
    /\ \E i \in 1..Len(data.rows) :
          /\ data.rows[i].Action = "Sell"
          /\ IsFinite(PrevState(data.rows, i).avg)
          /\ PrevState(data.rows, i).avg # Zero
          /\ data.rows[i].AveragePrice = PrevState(data.rows, i).avg
          /\ data.rows[i].AccruedQty # PrevState(data.rows, i).cum

\* The state after a Split row is (avg / f, cum * f).
SplitMaps(i) ==
    /\ data.rows[i].AveragePrice
          = F64Div(PrevState(data.rows, i).avg, data.rows[i].Qty)
    /\ data.rows[i].AccruedQty
          = F64Mul(PrevState(data.rows, i).cum, data.rows[i].Qty)

\* average_cost * accrued_quantity is the same before and after row i.
BasisKept(i) ==
    F64Mul(data.rows[i].AveragePrice, data.rows[i].AccruedQty)
        = F64Mul(PrevState(data.rows, i).avg, PrevState(data.rows, i).cum)

\* C3 as stated: every Split row maps (avg, cum) to (avg / f, cum * f) and
\* keeps the total cost basis avg * cum.
C3_SplitBasisAlways ==
    pc = "cumulative" =>
        \A i \in 1..Len(data.rows) :
            data.rows[i].Action = "Split" => SplitMaps(i) /\ BasisKept(i)

\* C3 amended: every Split row maps (avg, cum) to (avg / f, cum * f), and it
\* keeps the total cost basis avg * cum when its factor f is not zero.
C3_SplitBasisNonZeroFactor ==
    pc = "cumulative" =>
        \A i \in 1..Len(data.rows) :
            data.rows[i].Action = "Split" =>
                /\ SplitMaps(i)
                /\ data.rows[i].Qty # Zero => BasisKept(i)

\* A Split with a non-zero factor of a position whose cost basis is a
\* non-zero finite number.
C3_Witness ==
    /\ Computed
    /\ \E i \in 1..Len(data.rows) :
          /\ data.rows[i].Action = "Split"
          /\ data.rows[i].Qty # Zero
          /\ IsFinite(PrevState(data.rows, i).avg)
          /\ F64Mul(PrevState(data.rows, i).avg, PrevState(data.rows, i).cum) # Zero
          /\ data.rows[i].AveragePrice # PrevState(data.rows, i).avg
          /\ BasisKept(i)

\* The rows of the trace up to row i that have row i's ticker.
SameTickerUpTo(tbl, i) == {j \in 1..i : tbl[j].Ticker = tbl[i].Ticker}

RECURSIVE SumCost(_, _)
\* The sum of price * quantity over the rows js of tbl.
SumCost(tbl, js) ==
    IF js = {} THEN Zero
    ELSE LET j == CHOOSE k \in js : TRUE
         IN  F64Add(F64Mul(tbl[j].Price, tbl[j].Qty), SumCost(tbl, js \ {j}))

RECURSIVE SumQty(_, _)
\* The sum of the quantities of the rows js of tbl.
SumQty(tbl, js) ==
    IF js = {} THEN Zero
    ELSE LET j == CHOOSE k \in js : TRUE
         IN  F64Add(tbl[j].Qty, SumQty(tbl, js \ {j}))

\* C4: while a ticker's rows are all buys of positive quantities, its
\* average_cost after each row is the quantity-weighted mean of its buy
\* prices so far, whatever other tickers' rows are in the ledger.
C4_WeightedMean ==
    pc = "cumulative" =>
        \A i \in 1..Len(data.rows) :
            (\A j \in SameTickerUpTo(data.rows, i) :
                data.rows[j].Action = "Buy" /\ data.rows[j].Qty[1] > 0)
            => data.rows[i].AveragePrice
                  = F64Div(SumCost(data.rows, SameTickerUpTo(data.rows, i)),
                           SumQty(data.rows, SameTickerUpTo(data.rows, i)))

\* Two buys of one ticker at different prices, a row of another ticker
\* between them: the cost after the second lies strictly between the prices.
C4_Witness ==
    /\ Computed
    /\ Len(data.rows) = 3
    /\ data.rows[1].Ticker = data.rows[3].Ticker
    /\ data.rows[2].Ticker # data.rows[1].Ticker
    /\ data.rows[1].Action = "Buy" /\ data.rows[3].Action = "Buy"
    /\ data.rows[1].Qty[1] > 0 /\ data.rows[3].Qty[1] > 0
    /\ data.rows[1].Price # data.rows[3].Price
    /\ data.rows[3].AveragePrice # data.rows[1].Price
    /\ data.rows[3].AveragePrice # data.rows[3].Price

\* C5: a Buy row whose resulting accrued quantity is 0 divides by no zero and
\* leaves average_cost a defined (finite) value.
C5_BuyGuardsZeroQuantity ==
    pc = "cumulative" =>
        \A i \in 1..Len(data.rows) :
            (data.rows[i].Action = "Buy" /\ data.rows[i].AccruedQty = Zero)
                => IsFinite(data.rows[i].AveragePrice)

RECURSIVE KeepTraded(_)
\* The Buy, Sell and Split rows of a ledger, in ledger order.
KeepTraded(ledger) ==
    IF ledger = <<>> THEN <<>>
    ELSE IF Head(ledger).Action \in Traded
         THEN <<Head(ledger)>> \o KeepTraded(Tail(ledger))
         ELSE KeepTraded(Tail(ledger))

OriginalColumns(row) ==
    [Ticker |-> row.Ticker, Action |-> row.Action, Qty |-> row.Qty,
     Price |-> row.Price]

\* C6: the output holds exactly the Buy, Sell and Split rows of the ledger, in
\* ledger order, their original columns unchanged; rows of any other action
\* are absent and change no ticker's running state (the added columns are
\* those of the ledger with these rows deleted).
C6_OnlyTradedRows ==
    /\ pc = "collected" => result = data.rows
    /\ pc = "cumulative" =>
        LET kept == KeepTraded(orders)
        IN  /\ [i \in 1..Len(data.rows) |-> OriginalColumns(data.rows[i])] = kept
            /\ [i \in 1..Len(data.rows) |->
                   <<data.rows[i].AveragePrice, data.rows[i].AccruedQty>>]
                  = SeqFold(kept)

\* A ledger with a Split, and a row of another action ahead of a later
\* traded row, collected.
C6_Witness ==
    /\ pc = "collected"
    /\ Len(orders) = 3 /\ Len(result) = 2
    /\ orders[1].Action = "Split"
    /\ orders[2].Action \notin Traded
    /\ OriginalColumns(result[2]) = orders[3]

TradedTickers ==
    {orders[i].Ticker : i \in {k \in 1..Len(orders) : orders[k].Action \in Traded}}

\* The last row of ticker t in the trace collect() returns.
LastRowOf(t) ==
    LET js == {j \in 1..Len(data.rows) : data.rows[j].Ticker = t}
    IN  data.rows[CHOOSE j \in js : \A k \in js : k <= j]

\* C7: collect_latest returns exactly one row for every ticker that has a
\* Buy/Sell/Split row, holding the (average_cost, accrued_quantity) of the
\* ticker's last row in the trace of collect(); other tickers do not appear.
C7_LatestPerTicker ==
    pc = "latest" =>
        /\ {result[k].Ticker : k \in 1..Len(result)} = TradedTickers
        /\ Len(result) = Cardinality(TradedTickers)
        /\ \A k \in 1..Len(result) :
              /\ result[k].AveragePrice = LastRowOf(result[k].Ticker).AveragePrice
              /\ result[k].AccruedQty = LastRowOf(result[k].Ticker).AccruedQty

\* collect_latest on a ledger with a ticker that has no traded row, and a
\* ticker whose last pair differs from its first.
C7_Witness ==
    /\ pc = "latest"
    /\ \E i \in 1..Len(orders) : orders[i].Ticker \notin TradedTickers
    /\ \E k \in 1..Len(result) :
          LET g == TickerGroup(data.rows, result[k].Ticker)
          IN  /\ Len(g) >= 2
              /\ g[1].AccruedQty # result[k].AccruedQty
              /\ g[1].AveragePrice # result[k].AveragePrice

\* C8: when a row whose action is not Buy, Sell or Split reaches the fold,
\* the fold ends in a panic and yields no rows: the row is neither skipped
\* nor turned into a value.
C8_UnsupportedActionPanics ==
    (pc = "folded" /\ \E k \in 1..Len(group_rows) : group_rows[k].Action \notin Traded)
        => data.panic /\ data.rows = <<>>

\* The fold over a group with a Buy followed by a Dividend.
C8_Witness ==
    /\ pc = "folded"
    /\ Len(group_rows) >= 2
    /\ group_rows[1].Action = "Buy"
    /\ group_rows[2].Action = "Dividend"
    /\ data.panic

-----------------------------------------------------------------------------
(* Properties of the currency normalizer *)

\* Every row of the table passed to normalize holds the target currency.
AllInTarget == \A i \in 1..Len(table) : table[i].Currency = args.currency

\* C9: when every row of a non-empty table already has the target currency,
\* normalize returns the input table unchanged and has made no call on the
\* quote source: no with_currency registration and no load.
C9_IdentityNoSourceCall ==
    (npc = "normalized" /\ Len(table) > 0 /\ AllInTarget)
        => /\ normalized = [status |-> "ok", rows |-> table]
           /\ scraper = [tickers |-> <<>>, calls |-> <<>>]
           /\ quotes = NoData

\* Two rows in USD normalized to USD.
C9_Witness ==
    /\ npc = "normalized"
    /\ Len(table) = 2
    /\ AllInTarget
    /\ args.currency = "USD"
    /\ table[1].Amount # table[2].Amount
    /\ normalized.rows = table

\* The quotes of the pair c/target in the data the source returned.
PairQuotes(c) ==
    SelectSeq(quotes.rows, LAMBDA q : q.Ticker = c \o "/" \o args.currency)

\* Column col of input row i has been multiplied by rate r, and a column
\* that is not listed has been left alone.
Scaled(i, r) ==
    /\ normalized.rows[i].Amount =
           IF "Amount" \in args.columns
           THEN F64Mul(table[i].Amount, r) ELSE table[i].Amount
    /\ normalized.rows[i].Price =
           IF "Price" \in args.columns
           THEN F64Mul(table[i].Price, r) ELSE table[i].Price

\* C10: after a successful normalize every input row has its listed columns
\* multiplied by one rate that depends on the row's currency c only: exactly
\* 1.0 when c is the target, and the quoted price of the pair c/target (the
\* last quote of the pair in the returned data) when c differs from the
\* target and the pair is quoted.
C10_RateByCurrency ==
    (npc = "normalized" /\ normalized.status = "ok")
        => /\ Len(normalized.rows) = Len(table)
           /\ \A i \in 1..Len(table) :
                 LET c == table[i].Currency
                     quoted == PairQuotes(c)
                 IN  /\ c = args.currency => Scaled(i, One)
                     /\ (c # args.currency /\ quoted # <<>>)
                            => Scaled(i, quoted[Len(quoted)].Price)

\* 150.00 USD with USD/GBP = 0.87 becomes 130.50 GBP, next to a row that is
\* in GBP already and keeps 76.87.
C10_Witness ==
    /\ npc = "normalized"
    /\ normalized.status = "ok"
    /\ args.currency = "GBP"
    /\ Len(table) = 2
    /\ table[1].Currency = "USD" /\ table[1].Amount = Norm(150, 1)
    /\ table[2].Currency = "GBP" /\ table[2].Amount = Norm(7687, 100)
    /\ PairQuotes("USD") = <<QuoteRow(Today, "USD/GBP", Norm(87, 100))>>
    /\ normalized.rows[1].Amount = Norm(261, 2)
    /\ normalized.rows[2].Amount = Norm(7687, 100)
    /\ normalized.rows[1].Currency = "GBP"

\* The currencies normalize registered with the quote source, and whether it
\* went on to the load.
Registered ==
    {scraper.calls[k][2] : k \in {j \in 1..Len(scraper.calls) :
                                     scraper.calls[j][1] = "with_currency"}}

Loaded == \E k \in 1..Len(scraper.calls) : scraper.calls[k][1] = "load"

\* C11: when the data the quote source returned holds no quote for the pair
\* of a currency c of the table, normalize still succeeds, keeps every row
\* whose currency is c and leaves the listed columns of those rows unchanged
\* (rate 1.0).
C11_MissingQuoteKeepsRows ==
    \A i \in 1..Len(table) :
        (/\ npc = "normalized"
         /\ quotes.status = "ok"
         /\ table[i].Currency # args.currency
         /\ PairQuotes(table[i].Currency) = <<>>)
            => /\ normalized.status = "ok"
               /\ Len(normalized.rows) = Len(table)
               /\ Scaled(i, One)

\* C12: an error of the quote source for a currency pair (the load fails,
\* or the provider fails for a registered pair, which then has no quote)
\* never aborts normalize: it returns a table in which the affected
\* currency has rate 1.0 and every other currency is converted.
C12_PairErrorNeverAborts ==
    (/\ npc = "normalized"
     /\ Loaded
     /\ \/ quotes.status = "err"
        \/ \E c \in Registered : PairQuotes(c) = <<>>)
        => /\ normalized.status = "ok"
           /\ Len(normalized.rows) = Len(table)
           /\ \A i \in 1..Len(table) :
                 LET quoted == PairQuotes(table[i].Currency)
                 IN  Scaled(i, IF quoted = <<>> THEN One
                               ELSE quoted[Len(quoted)].Price)

\* The quotes of the pair from/to in a frame of quotes.
QuotesOf(frame, from, to) ==
    SelectSeq(frame, LAMBDA q : q.Ticker = from \o "/" \o to)

\* A table in currency A went to B and back to A, both pairs were quoted,
\* and the rate applied on the way back (the last price of B/A) is the
\* reciprocal of the rate applied on the way out (the last price of A/B).
RoundTripOf(A, B) ==
    /\ npc = "returned"
    /\ round_trip.status = "ok"
    /\ Len(table) > 0
    /\ \A i \in 1..Len(table) : table[i].Currency = A
    /\ args.currency = B
    /\ round_trip.currency = A
    /\ A # B
    /\ LET out == QuotesOf(quotes.rows, A, B)
           back == QuotesOf(round_trip.quotes.rows, B, A)
       IN  /\ out # <<>>
           /\ back # <<>>
           /\ F64Mul(out[Len(out)].Price, back[Len(back)].Price) = One

\* C13: normalizing a table from A to B and the result from B back to A,
\* with reciprocal rates, gives back the original values of the scaled
\* columns, the other columns and the currency A, row by row.
C13_RoundTrip ==
    \A A, B \in Targets :
        RoundTripOf(A, B) => round_trip.rows = table

\* 150.00 and 76.87 USD to GBP at 0.87 (130.50 on the way) and back at
\* 1/0.87, both columns scaled.
C13_Witness ==
    /\ RoundTripOf("USD", "GBP")
    /\ args.columns = {"Amount", "Price"}
    /\ Len(table) = 2
    /\ table[1].Amount = Norm(150, 1)
    /\ table[2].Amount = Norm(7687, 100)
    /\ normalized.rows[1].Amount = Norm(261, 2)
    /\ normalized.rows[2].Price # table[2].Price
    /\ round_trip.rows[1].Amount = Norm(150, 1)

\* C14: the table a successful normalize returns has one row per input row
\* in the same order, the target currency in every row's currency column, no
\* exchange-rate column (the columns are those of the input), and in every
\* column that is neither the currency column nor listed the input's values.
C14_FrameOfResult ==
    (npc = "normalized" /\ normalized.status = "ok")
        => /\ Len(normalized.rows) = Len(table)
           /\ \A i \in 1..Len(table) :
                 /\ DOMAIN normalized.rows[i] = DOMAIN table[i]
                 /\ normalized.rows[i].Currency = args.currency
                 /\ normalized.rows[i].Ticker = table[i].Ticker
                 /\ "Price" \notin args.columns
                        => normalized.rows[i].Price = table[i].Price
                 /\ "Amount" \notin args.columns
                        => normalized.rows[i].Amount = table[i].Amount

\* A BRL row and a GBP row normalized to USD on Amount alone, BRL/USD
\* quoted and GBP/USD not: both rows are there, in order, in USD, with
\* their Price untouched.
C14_Witness ==
    /\ npc = "normalized"
    /\ normalized.status = "ok"
    /\ args.currency = "USD"
    /\ args.columns = {"Amount"}
    /\ Len(table) = 2
    /\ table[1].Currency = "BRL" /\ table[1].Ticker = "CASH"
    /\ table[2].Currency = "GBP" /\ table[2].Ticker = "GOOGL"
    /\ PairQuotes("BRL") # <<>>
    /\ PairQuotes("GBP") = <<>>
    /\ Len(normalized.rows) = 2
    /\ normalized.rows[1].Amount # table[1].Amount
    /\ normalized.rows[2].Price = Norm(3445, 100)
    /\ normalized.rows[2].Currency = "USD"

-----------------------------------------------------------------------------
(* Properties of the market-data cache *)

\* A call of Cache::load has returned.
Called == last_call.status # "none"

\* The quotes file held, before the call, a quote of ticker t dated within
\* lo..hi.
HeldQuote(t, lo, hi) ==
    \E r \in BagToSet(last_call.before.quotes) :
        r.Ticker = t /\ lo <= r.Date /\ r.Date <= hi

\* Before the call, every requested ticker had a persisted quote inside the
\* requested window (its ends moved back off the weekend).
CoveredBefore ==
    /\ BagCardinality(last_call.before.quotes) > 0
    /\ \A k \in 1..Len(last_call.tickers) :
          HeldQuote(last_call.tickers[k],
                    adjust_weekday_backward(last_call.period.start),
                    adjust_weekday_backward(last_call.period.end))

\* C15: when the persisted quote series already covers the request, the
\* call answers from the cache: it makes no load of the collaborator,
\* succeeds, returns persisted quotes only and leaves the files as they were.
C15_CoveredAnswersFromCache ==
    (Called /\ CoveredBefore)
        => /\ last_call.fetched = <<>>
           /\ last_call.status = "ok"
           /\ last_call.data.quotes \sqsubseteq last_call.before.quotes
           /\ files = last_call.before

\* A first load fetched GOOGL from day 16 on, a second load asks GOOGL for
\* the sub-range 17..17 and is answered without a fetch.
C15_Witness ==
    /\ loads = 2
    /\ Len(cache.inner.calls) = 1
    /\ cache.inner.calls[1].start = 16
    /\ last_call.tickers = <<"GOOGL">>
    /\ last_call.period.start = 17 /\ last_call.period.end = 17
    /\ last_call.fetched = <<>>
    /\ BagCardinality(last_call.data.quotes) = 1
    /\ BagCardinality(files.quotes) > 1

\* C16: the request is reported covered (the call makes no fetch) only if
\* every requested ticker has a cached quote dated on or before the
\* weekend-adjusted start and one dated on or after the weekend-adjusted
\* end of the window.
C16_CoveredOnlyIfWindowSpanned ==
    (Called /\ last_call.fetched = <<>>)
        => \A k \in 1..Len(last_call.tickers) :
              /\ HeldQuote(last_call.tickers[k], 0,
                           adjust_weekday_backward(last_call.period.start))
              /\ HeldQuote(last_call.tickers[k],
                           adjust_weekday_backward(last_call.period.end), Today)

\* C17: a call of Cache::load makes no load of the collaborator when the
\* request is covered and exactly one when it is not, whether that load
\* failed, answered enough or not; so the collaborator has been loaded at
\* most once per call.
C17_AtMostOneFetch ==
    /\ Called => Len(last_call.fetched) = IF CoveredBefore THEN 0 ELSE 1
    /\ Len(cache.inner.calls) <= loads

\* An uncovered request for APPL whose one fetch brought no quote of APPL:
\* the call returned all the same, after one load of the collaborator.
C17_Witness ==
    /\ Called
    /\ last_call.tickers = <<"APPL">>
    /\ last_call.status = "ok"
    /\ ~CoveredBefore
    /\ Len(last_call.fetched) = 1
    /\ \A r \in BagToSet(files.quotes) : r.Ticker # "APPL"

\* The earliest date of the quotes cached before the call.
EarliestCached ==
    CHOOSE d \in {r.Date : r \in BagToSet(last_call.before.quotes)} :
        \A r \in BagToSet(last_call.before.quotes) : d <= r.Date

\* C18 as stated: the fetch of an uncovered request starts at the earliest
\* date held in the cached series, or at the requested start when nothing is
\* cached, and ends today.
C18_FetchFromEarliestCached ==
    (Called /\ last_call.fetched # <<>>)
        => /\ last_call.fetched[1].start =
                  IF BagCardinality(last_call.before.quotes) = 0
                  THEN last_call.period.start
                  ELSE EarliestCached
           /\ last_call.fetched[1].end = Today

\* C18, amended: the fetch of an uncovered request starts at the requested
\* start, whatever the cache holds, ends today and asks for daily quotes.
C18_FetchFromRequestedStart ==
    (Called /\ last_call.fetched # <<>>)
        => last_call.fetched[1] =
               [start |-> last_call.period.start, end |-> Today, interval_days |-> 1]

\* Quotes cached from day 16 on, and an uncovered request that starts on
\* day 17 and ends on day 17: the fetch runs from day 17 to today.
C18_Witness ==
    /\ Called
    /\ BagCardinality(last_call.before.quotes) > 0
    /\ EarliestCached = 16
    /\ last_call.period.start = 17
    /\ last_call.period.end = 17
    /\ Len(last_call.fetched) = 1
    /\ last_call.fetched[1].start = 17
    /\ last_call.fetched[1].end = Today

\* C19: the persisted quote series holds at most one row per (ticker, date),
\* the row cached first.
C19_OneRowPerTickerDate ==
    \A r1, r2 \in BagToSet(files.quotes) :
        (r1.Ticker = r2.Ticker /\ r1.Date = r2.Date) => r1 = r2

\* C20: merging the delta that was merged last a second time (quotes,
\* splits or dividends) leaves the series as the first merge left them.
C20_RemergeIdempotent ==
    last_merge.repeated => merged = last_merge.before

\* The same two quotes merged twice into a series that holds other quotes
\* too.
C20_Witness ==
    /\ last_merge.repeated
    /\ last_merge.kind = "quotes"
    /\ BagCardinality(last_merge.delta) = 2
    /\ BagCardinality(merged.quotes) > 2
    /\ last_merge.delta \sqsubseteq merged.quotes

-----------------------------------------------------------------------------
(* Properties of the cache on a directory whose files can be lost or damaged *)

\* C21: a call of Cache::load leaves in each of the three files every row
\* the file held before the call, whichever path the call took.
C21_FilesOnlyGrow ==
    Called => \A name \in FileNames : last_call.before[name] \sqsubseteq last_call.after[name]

\* C24: a quotes file that is missing or corrupt reads as the empty series
\* and the call goes on to fetch; a splits or dividends file in that state
\* reads as the empty series too; and no call fails before it has asked
\* the collaborator, whatever the state of the files.
C24_UnreadableFileIsEmptySeries ==
    Called =>
        /\ last_call.before.state.quotes # "rows" => Len(last_call.fetched) = 1
        /\ last_call.status = "err" => Len(last_call.fetched) = 1
        /\ \A name \in {"splits", "dividends"} :
              (last_call.before.state[name] # "rows" /\ last_call.fetched = <<>>)
                  => (last_call.status = "ok" /\ last_call.data[name] = EmptyBag)

\* A call that found the quotes file corrupt beside a splits file with
\* rows, fetched and returned quotes.
C24_Witness ==
    /\ Called
    /\ last_call.before.state.quotes = "corrupt"
    /\ last_call.before.state.splits = "rows"
    /\ last_call.status = "ok"
    /\ Len(last_call.fetched) = 1
    /\ BagCardinality(last_call.data.quotes) > 0

-----------------------------------------------------------------------------
(* Further properties of the cache *)

Requested(t) == \E k \in 1..Len(last_call.tickers) : last_call.tickers[k] = t

\* C22: every row of the quotes, splits and dividends a call returns is of
\* a requested ticker and dated within the requested start..end.
C22_ReturnedWithinRequest ==
    (Called /\ last_call.status = "ok") =>
        \A name \in FileNames : \A r \in BagToSet(last_call.data[name]) :
            /\ Requested(r.Ticker)
            /\ last_call.period.start <= r.Date
            /\ r.Date <= last_call.period.end

\* C23: when a call returns, with data or with an error, no ticker is left
\* registered with the cache.
C23_TickersClearedAfterLoad ==
    Called => last_call.left = <<>>

\* C25: a call that ends with an error (the collaborator's load failed)
\* returns no data and leaves the three files as they were.
C25_FailedFetchLeavesFiles ==
    (Called /\ last_call.status = "err") =>
        /\ last_call.after = last_call.before
        /\ last_call.data = ScraperData_default

\* A call on files with quotes that ended with an error after its fetch:
\* the error is the collaborator's, the merge and the filter had rows.
C25_Witness ==
    /\ Called
    /\ last_call.status = "err"
    /\ Len(last_call.fetched) = 1
    /\ BagCardinality(last_call.before.quotes) > 0
    /\ last_call.tickers # <<>>

\* C28: a call answered without a fetch returns a quote of every requested
\* ticker.
C28_CoveredReturnsEveryTicker ==
    (Called /\ last_call.status = "ok" /\ last_call.fetched = <<>>) =>
        \A k \in 1..Len(last_call.tickers) :
            \E r \in BagToSet(last_call.data.quotes) : r.Ticker = last_call.tickers[k]

\* A covered call for a weekend: the coverage check and the filter both
\* reach back to the Friday.
C28_Witness ==
    /\ Called
    /\ last_call.status = "ok"
    /\ last_call.fetched = <<>>
    /\ last_call.tickers # <<>>
    /\ weekday(last_call.period.start) >= 5

-----------------------------------------------------------------------------
(* Properties of the weekend adjustment *)

\* C26: adjust_weekday_forward moves a Saturday or a Sunday to the Monday
\* that follows and adjust_weekday_backward to the Friday before; both
\* leave the days from Monday to Friday alone; so the result is a weekday,
\* and a second call changes nothing.
C26_AdjustWeekday ==
    \A k \in 1..Len(adjusted) :
        LET a == adjusted[k]
        IN  /\ weekday(a.to) < 5
            /\ weekday(a.from) < 5 => a.to = a.from
            /\ (a.fn = "forward" /\ weekday(a.from) >= 5) =>
                   (weekday(a.to) = 0 /\ a.to > a.from /\ a.to - a.from <= 2)
            /\ (a.fn = "backward" /\ weekday(a.from) >= 5) =>
                   (weekday(a.to) = 4 /\ a.to < a.from /\ a.from - a.to <= 2)
            /\ k > 1 => (a.from = adjusted[k - 1].to /\ a.to = a.from)

\* A Saturday moved forward, twice.
C26_Witness ==
    /\ Len(adjusted) = 2
    /\ adjusted[1].fn = "forward" /\ adjusted[2].fn = "forward"
    /\ weekday(adjusted[1].from) = 5
    /\ adjusted[2].to = adjusted[1].from + 2

-----------------------------------------------------------------------------
(* Properties of the stepping loop of Timeline::summary *)

TimelinePre ==
    /\ timeline_args.interval_days >= 1
    /\ timeline_args.first_date <= TargetDate(timeline_args)

Snapshots == IF timeline_pc = "err" THEN <<>> ELSE timeline_result

\* The snapshot dates start at the first order date, each next one is the
\* one before plus the interval, or the target date if that comes first,
\* and is later; the loop has not run more turns than there are days; and
\* the last date of a finished call is the target date.
TimelineDatesStep ==
    TimelinePre =>
        /\ Len(Snapshots) > 0 => Snapshots[1] = timeline_args.first_date
        /\ \A k \in 1..(Len(Snapshots) - 1) :
              /\ Snapshots[k] < Snapshots[k + 1]
              /\ Snapshots[k + 1] = next_date(Snapshots[k], timeline_args.interval_days,
                                              TargetDate(timeline_args))
        /\ Len(Snapshots) <= TargetDate(timeline_args) - timeline_args.first_date + 1
        /\ timeline_pc = "loop" => current_date <= TargetDate(timeline_args)
        /\ timeline_pc = "done" =>
              Snapshots[Len(Snapshots)] = TargetDate(timeline_args)

\* C30: for an interval of one day or more and a first order date that is
\* not after the target date, the loop of Timeline::summary ends, and its
\* snapshot dates are those of TimelineDatesStep.
C30_SteppingLoopTerminates ==
    /\ []TimelineDatesStep
    /\ (TimelinePre => <>(timeline_pc \in {"done", "err"}))

\* A finished call of three snapshots whose last step was cut short at the
\* target date.
C30_Witness ==
    /\ TimelinePre
    /\ timeline_pc = "done"
    /\ Len(timeline_result) = 3
    /\ timeline_result[3] - timeline_result[2] < timeline_args.interval_days

-----------------------------------------------------------------------------
(* Further properties of the currency normalizer *)

\* The call went past the identity short-circuit and every currency of the
\* column parsed.
Converting ==
    /\ npc = "normalized"
    /\ Len(table) > 0
    /\ ~AllInTarget
    /\ \A i \in 1..Len(table) : table[i].Currency \in Currency

\* C27: when a row's currency differs from the target, normalize registers
\* the pair c/target once for each currency c of the column other than the
\* target, never the pair target/target, and then makes one load, of the
\* three days that end at present_date, or of a period that ends today
\* when present_date is None.
C27_RegistersThenLoadsOnce ==
    Converting =>
        LET calls == scraper.calls
            n == Len(calls)
        IN  /\ n >= 1
            /\ calls[n][1] = "load"
            /\ \A k \in 1..(n - 1) :
                  /\ calls[k][1] = "with_currency"
                  /\ calls[k][3] = args.currency
                  /\ calls[k][2] # args.currency
                  /\ \E i \in 1..Len(table) : table[i].Currency = calls[k][2]
            /\ \A i \in 1..Len(table) :
                  table[i].Currency # args.currency =>
                      Cardinality({k \in 1..(n - 1) : calls[k][2] = table[i].Currency}) = 1
            /\ IF args.present_date = <<>>
               THEN calls[n][3] = Today
               ELSE /\ calls[n][3] = args.present_date[1]
                    /\ calls[n][2] = args.present_date[1] - 3
            /\ quotes.status = "err" =>
                  \A i \in 1..Len(table) :
                      table[i].Currency # args.currency =>
                          \E k \in 1..Len(scraper.tickers) :
                              scraper.tickers[k] = table[i].Currency \o "/" \o args.currency

\* A table in BRL and GBP normalized to USD as of day 10: two
\* registrations, then the load of days 7 to 10.
C27_Witness ==
    /\ Converting
    /\ args.currency = "USD"
    /\ scraper.calls = <<<<"with_currency", "BRL", "USD">>,
                         <<"with_currency", "GBP", "USD">>,
                         <<"load", 7, 10>>>>

\* C29: when the returned data holds several quotes of the pair of a row's
\* currency, the row is scaled by the price of one that no other is dated
\* after, and the result has one row for each input row.
C29_LatestDatedQuote ==
    (npc = "normalized" /\ normalized.status = "ok" /\ quotes.columns) =>
        /\ Len(normalized.rows) = Len(table)
        /\ \A i \in 1..Len(table) :
              LET quoted == PairQuotes(table[i].Currency)
              IN  (table[i].Currency # args.currency /\ Len(quoted) >= 2) =>
                      \E k \in 1..Len(quoted) :
                          /\ \A j \in 1..Len(quoted) : quoted[j].Date <= quoted[k].Date
                          /\ Scaled(i, quoted[k].Price)

\* A row in USD normalized to GBP with the quotes of two days: the price of
\* the later day is the rate.
C29_Witness ==
    /\ npc = "normalized"
    /\ normalized.status = "ok"
    /\ args.currency = "GBP"
    /\ "Amount" \in args.columns
    /\ Len(table) >= 1
    /\ table[1].Currency = "USD"
    /\ Len(PairQuotes("USD")) = 2
    /\ PairQuotes("USD")[1].Date < PairQuotes("USD")[2].Date
    /\ PairQuotes("USD")[1].Price # PairQuotes("USD")[2].Price
    /\ normalized.rows[1].Amount = F64Mul(table[1].Amount, PairQuotes("USD")[2].Price)

====
